---- MODULE Spec2Model ----
(***************************************************************************)
(* Model of src/app.py: a Streamlit page that posts an uploaded file to a  *)
(* webhook and keeps a chat log in st.session_state.                       *)
(*                                                                         *)
(* Streamlit executes the script top to bottom once per browser event      *)
(* (a "script run").  st.session_state survives between runs, widget       *)
(* values are latched at the start of a run, st.chat_input yields its text *)
(* only in the run its submission triggered, and st.rerun() halts the      *)
(* current run and starts a new one.  pc is the position of the script.    *)
(* A session has one script thread: an event that arrives while the script *)
(* is blocked in requests.post is queued, and the run is stopped at its    *)
(* first st.* call after the call returns.  The script's segments between  *)
(* blocking calls are atomic with respect to browser events.               *)
(***************************************************************************)
EXTENDS Integers, Sequences, FiniteSets, TLC

(* ---------------------------- bounds ---------------------------------- *)
MaxMessages == 8
MaxCalls == 4

(* ---------------------- Python / JSON values -------------------------- *)
\* Every Python value is tagged, so that None, "" and {} stay distinct.
PyNone == [t |-> "null", v |-> "null"]
Str(s) == [t |-> "str", v |-> s]
Dict(f) == [t |-> "dict", v |-> f]
List(q) == [t |-> "list", v |-> q]
File(n, b, m) == [t |-> "file", v |-> [name |-> n, bytes |-> b, type |-> m]]
\* what response.json() yields for a body that is not JSON
NotJson == [t |-> "invalid", v |-> "invalid"]

\* bool(x) as Python computes it for the values used here
Truthy(x) ==
    CASE x.t = "null" -> FALSE
      [] x.t = "str"  -> x.v # ""
      [] x.t = "dict" -> DOMAIN x.v # {}
      [] x.t = "list" -> Len(x.v) > 0
      [] OTHER        -> TRUE

\* only a dict has .get; calling it on anything else raises AttributeError
HasGet(x) == x.t = "dict"

\* d.get(key, default) for a dict d
PyGet(d, key, default) == IF key \in DOMAIN d.v THEN d.v[key] ELSE default

\* str(x) inside an f-string
PyStr(x) == IF x.t = "str" THEN x.v ELSE "None"

(* --------------------------- fixed texts ------------------------------ *)
\* The module is ASCII: CheckMark stands for the character U+2705.
CheckMark == "[U+2705]"
Greeting == [role |-> "assistant", content |-> Str("Hello! Please upload your DRF file to begin.")]
NotImplementedReply == [role |-> "assistant", content |-> Str("Follow-up questions are not yet implemented.")]
NoSummary == Str("No summary available.")
NoLean == Str("No lean data found.")
ConfigErrorText == "Webhook URL is not configured. Please set it in your Streamlit secrets."
ContactErrorText == "An error occurred while contacting the analysis workflow: "
SummaryText(python_summary) == CheckMark \o " Analysis Complete! " \o PyStr(python_summary) \o "."
SummaryMessage(python_summary) == [role |-> "assistant", content |-> Str(SummaryText(python_summary))]
UserMessage(p) == [role |-> "user", content |-> p]

(* ------------------------ inputs of the model ------------------------- *)
Files == { File("race1.drf", "bytes-A", "application/octet-stream"),
           File("race1.drf", "bytes-B", "application/octet-stream"),
           File("race2.drf", "bytes-A", "text/plain") }
Prompts == { Str("How many favorites won?") }
Urls == { PyNone, Str(""), Str("https://hook.example/wf") }

Lean == Dict([a |-> 1])
\* a response body: its raw text and what response.json() makes of it
Body(text, json) == [text |-> text, json |-> json]
FullBody == Body("{data:{python_summary:'3 horses analyzed',lean:{a:1}}}",
                 Dict([data |-> Dict([python_summary |-> Str("3 horses analyzed"), lean |-> Lean])]))
NoSummaryBody == Body("{data:{lean:{a:1}}}", Dict([data |-> Dict([lean |-> Lean])]))
EmptyDataBody == Body("{data:{}}", Dict([data |-> Dict(<<>>)]))
NoDataBody == Body("{status:'ok'}", Dict([status |-> Str("ok")]))
EmptyObjectBody == Body("{}", Dict(<<>>))
NullDataBody == Body("{data:null}", Dict([data |-> PyNone]))
ListBody == Body("[1]", List(<<1>>))
TextBody == Body("Accepted", NotJson)
Bodies == { FullBody, NoSummaryBody, EmptyDataBody, NoDataBody, EmptyObjectBody,
            NullDataBody, ListBody, TextBody }

\* what requests.post does: it raises before any response exists
\* (connection refused, timeout), or it returns a response
Raised == [kind |-> "raised", status |-> 0, body |-> Body("", NotJson)]
Response(s, b) == [kind |-> "response", status |-> s, body |-> b]
ErrorJsonBody == Body("{error:'quota'}", Dict([error |-> Str("quota")]))
Responses == {Raised} \cup {Response(200, b) : b \in Bodies}
             \cup {Response(500, TextBody), Response(500, ErrorJsonBody)}
NoResponse == [kind |-> "none", status |-> 0, body |-> Body("", NotJson)]

VARIABLES
    MAKE_WEBHOOK_URL,     \* st.secrets.get("MAKE_WEBHOOK_URL")
    initialized,          \* "messages" in st.session_state
    messages,             \* st.session_state.messages
    last_processed_file,  \* st.session_state.get("last_processed_file")
    uploaded_file,        \* value of the st.file_uploader widget
    prompt,               \* value st.chat_input yields in the current run
    pc,                   \* position of the script
    outbound,             \* the POSTs issued so far: the 'file' part of each
    screen,               \* elements drawn in the current script run
    aborted,              \* the current run ended by an uncaught exception
    last_submit,          \* history: name and outcome of the latest submitFile that was not skipped
    last_2xx_json,        \* history: name of the latest file answered 2xx with a JSON body
    last_response,        \* history: what the latest requests.post did
    at_event,             \* history: log, calls and last_processed_file when the latest browser event arrived
    pending,              \* widget values of a browser event that arrived while the script is blocked
    in_flight,            \* requests sent and not yet answered
    lpf_sets              \* history: how many submissions assigned last_processed_file

vars == <<MAKE_WEBHOOK_URL, initialized, messages, last_processed_file, uploaded_file,
          prompt, pc, outbound, screen, aborted, last_submit, last_2xx_json, last_response,
          at_event, pending, in_flight, lpf_sets>>

(* ------------------------- screen elements ---------------------------- *)
Element(kind, role, content) == [kind |-> kind, role |-> role, content |-> content]
ErrorElement(text) == Element("error", "assistant", Str(text))

\* lines 52-58: st.json for a dict or list, st.write for anything else
RenderMessage(m) ==
    Element(IF m.content.t = "dict" \/ m.content.t = "list" THEN "json" ELSE "write",
            m.role, m.content)
Render(msgs) == [i \in 1..Len(msgs) |-> RenderMessage(msgs[i])]

Snapshot == [messages |-> messages, calls |-> Len(outbound), lpf |-> last_processed_file,
             rerun |-> FALSE]
NoSubmit == [name |-> PyNone, outcome |-> "none"]

Init ==
    /\ MAKE_WEBHOOK_URL \in Urls
    /\ initialized = FALSE
    /\ messages = <<>>
    /\ last_processed_file = PyNone
    /\ uploaded_file = PyNone
    /\ prompt = PyNone
    /\ pc = "init"
    /\ outbound = <<>>
    /\ screen = <<>>
    /\ aborted = FALSE
    /\ last_submit = NoSubmit
    /\ last_2xx_json = PyNone
    /\ last_response = NoResponse
    /\ at_event = [messages |-> <<>>, calls |-> 0, lpf |-> PyNone, rerun |-> FALSE]
    /\ pending = PyNone
    /\ in_flight = 0
    /\ lpf_sets = 0

(* ------------------------- browser events ----------------------------- *)
\* room for everything one event can add: a run and its reruns append at
\* most three messages and issue at most two requests
HasRoom == Len(messages) + 3 <= MaxMessages /\ Len(outbound) + 2 <= MaxCalls

\* the user picks, replaces or removes the file: a new script run starts
SelectFile(f) ==
    /\ pc = "idle"
    /\ HasRoom
    /\ uploaded_file' = f
    /\ prompt' = PyNone
    /\ pc' = "init"
    /\ screen' = <<>>
    /\ aborted' = FALSE
    /\ at_event' = Snapshot
    /\ UNCHANGED <<pending, in_flight, lpf_sets>>
    /\ UNCHANGED <<MAKE_WEBHOOK_URL, initialized, messages, last_processed_file,
                   outbound, last_submit, last_2xx_json, last_response>>

\* the user submits a text in the chat input: a new script run starts
EnterPrompt(p) ==
    /\ pc = "idle"
    /\ HasRoom
    /\ prompt' = p
    /\ pc' = "init"
    /\ screen' = <<>>
    /\ aborted' = FALSE
    /\ at_event' = Snapshot
    /\ UNCHANGED <<pending, in_flight, lpf_sets>>
    /\ UNCHANGED <<MAKE_WEBHOOK_URL, initialized, messages, last_processed_file,
                   uploaded_file, outbound, last_submit, last_2xx_json, last_response>>

\* st.rerun(): the next run keeps the session state and the uploader's
\* file; the chat input's one-shot value is gone
Rerun ==
    /\ pc = "rerun"
    /\ prompt' = PyNone
    /\ pc' = "init"
    /\ screen' = <<>>
    /\ aborted' = FALSE
    /\ at_event' = [at_event EXCEPT !.rerun = TRUE]
    /\ UNCHANGED <<pending, in_flight, lpf_sets>>
    /\ UNCHANGED <<MAKE_WEBHOOK_URL, initialized, messages, last_processed_file,
                   uploaded_file, outbound, last_submit, last_2xx_json, last_response>>

(* ---------------------- lines 48-58: initialize ----------------------- *)
\* variant: the "messages" not in st.session_state test of line 48 is left out
SeedMessages_Always(exists, log) == <<Greeting>>

\* lines 48-49: the log after the initialization block
SeedMessages(exists, log) == IF exists THEN log ELSE <<Greeting>>

Initialize ==
    /\ pc = "init"
    /\ messages' = SeedMessages(initialized, messages)
    /\ initialized' = TRUE
    /\ screen' = Render(messages')
    /\ pc' = "upload"
    /\ UNCHANGED <<pending, in_flight, lpf_sets>>
    /\ UNCHANGED <<MAKE_WEBHOOK_URL, last_processed_file, uploaded_file, prompt,
                   outbound, aborted, last_submit, last_2xx_json, last_response, at_event>>

(* ---------------------- lines 67-97: submitFile ----------------------- *)
\* line 67 / line 69: no file, or the file's name is last_processed_file
\* variant: the name comparison of line 69 is left out
Guard_AnyFile == uploaded_file # PyNone

Guard == uploaded_file # PyNone /\ last_processed_file # Str(uploaded_file.v.name)

\* line 26: not MAKE_WEBHOOK_URL holds for None and for ""
\* variant: "is None" instead of "not"
UrlMissing_IsNone == MAKE_WEBHOOK_URL = PyNone

UrlMissing == ~Truthy(MAKE_WEBHOOK_URL)

SubmitSkip ==
    /\ pc = "upload"
    /\ ~Guard
    /\ pc' = "chat"
    /\ UNCHANGED <<pending, in_flight, lpf_sets>>
    /\ UNCHANGED <<MAKE_WEBHOOK_URL, initialized, messages, last_processed_file,
                   uploaded_file, prompt, outbound, screen, aborted, last_submit,
                   last_2xx_json, last_response, at_event>>

\* lines 26-28: no URL; results is None, so line 78 skips the success branch
SubmitUnconfigured ==
    /\ pc = "upload"
    /\ Guard
    /\ UrlMissing
    /\ screen' = Append(screen, ErrorElement(ConfigErrorText))
    /\ last_submit' = [name |-> Str(uploaded_file.v.name), outcome |-> "unconfigured"]
    /\ pc' = "chat"
    /\ UNCHANGED <<pending, in_flight, lpf_sets>>
    /\ UNCHANGED <<MAKE_WEBHOOK_URL, initialized, messages, last_processed_file,
                   uploaded_file, prompt, outbound, aborted, last_2xx_json, last_response,
                   at_event>>

\* lines 32-35: the POST leaves with the file under 'file'; the script blocks
\* variant: the MIME type is not passed on
FilesPart_NoType(f) == [file |-> <<f.v.name, f.v.bytes, "">>]

\* line 32: the multipart body, one part named 'file'
FilesPart(f) == [file |-> <<f.v.name, f.v.bytes, f.v.type>>]

\* variant: the POST is handed to a background thread and the script goes on
AfterPost_NoWait == "chat"

\* line 35: requests.post is synchronous, the script waits for its return
AfterPost == "submitting"

SubmitSend ==
    /\ pc = "upload"
    /\ Guard
    /\ ~UrlMissing
    /\ outbound' = Append(outbound, FilesPart(uploaded_file))
    /\ in_flight' = in_flight + 1
    /\ pc' = AfterPost
    /\ UNCHANGED <<pending, lpf_sets>>
    /\ UNCHANGED <<MAKE_WEBHOOK_URL, initialized, messages, last_processed_file,
                   uploaded_file, prompt, screen, aborted, last_submit, last_2xx_json,
                   last_response, at_event>>

\* lines 34-42, from the return of requests.post on.  jsonErrorCaught: whether
\* the installed requests raises a RequestException for a body that is not
\* JSON (it does since 2.27; before, a plain ValueError escapes the except).
\* outcome "returned": run_analysis returns results (None after an error);
\* outcome "unbound": line 41 reads response, which was never assigned;
\* outcome "valueerror": the JSON error is not caught.
\* variant: raise_for_status() of line 37 is left out
run_analysis_NoStatusCheck(r, jsonErrorCaught) ==
    CASE r.kind = "raised" ->
            [outcome |-> "unbound", results |-> PyNone,
             errors |-> <<ErrorElement(ContactErrorText \o "no response")>>]
      [] r.kind = "response" /\ r.body.json = NotJson /\ jsonErrorCaught ->
            [outcome |-> "returned", results |-> PyNone,
             errors |-> <<ErrorElement(ContactErrorText \o "JSONDecodeError"),
                          ErrorElement("Response Body: " \o r.body.text)>>]
      [] r.kind = "response" /\ r.body.json = NotJson /\ ~jsonErrorCaught ->
            [outcome |-> "valueerror", results |-> PyNone, errors |-> <<>>]
      [] OTHER ->
            [outcome |-> "returned", results |-> r.body.json, errors |-> <<>>]

run_analysis(r, jsonErrorCaught) ==
    CASE r.kind = "raised" ->
            [outcome |-> "unbound", results |-> PyNone,
             errors |-> <<ErrorElement(ContactErrorText \o "no response")>>]
      [] r.kind = "response" /\ r.status >= 400 /\ r.status < 600 ->
            [outcome |-> "returned", results |-> PyNone,
             errors |-> <<ErrorElement(ContactErrorText \o "HTTPError"),
                          ErrorElement("Response Body: " \o r.body.text)>>]
      [] r.kind = "response" /\ r.status < 400 /\ r.body.json = NotJson /\ jsonErrorCaught ->
            [outcome |-> "returned", results |-> PyNone,
             errors |-> <<ErrorElement(ContactErrorText \o "JSONDecodeError"),
                          ErrorElement("Response Body: " \o r.body.text)>>]
      [] r.kind = "response" /\ r.status < 400 /\ r.body.json = NotJson /\ ~jsonErrorCaught ->
            [outcome |-> "valueerror", results |-> PyNone, errors |-> <<>>]
      [] OTHER ->
            [outcome |-> "returned", results |-> r.body.json, errors |-> <<>>]

\* line 80 and line 91 raise AttributeError when results, or results['data'],
\* is not a dict
ShapeRaises(results) == ~HasGet(results) \/ ~HasGet(PyGet(results, "data", Dict(<<>>)))
\* line 80
PythonSummary(results) == PyGet(PyGet(results, "data", Dict(<<>>)), "python_summary", NoSummary)
\* line 91
LeanData(results) == PyGet(PyGet(results, "data", Dict(<<>>)), "lean", NoLean)

\* variant: new messages are put in front of the log
Extend_Prepend(log, new) == new \o log

\* lines 84, 101, 106: list.append, once per new message
Extend(log, new) == log \o new

\* variant: the summary is only drawn, not appended to the log
SuccessMessages_None(results) == <<>>

\* lines 84-91: what the success branch adds to the log and to the screen
SuccessMessages(results) == <<SummaryMessage(PythonSummary(results))>>

SuccessScreen(results) ==
    << Element("write", "assistant", Str("Here is the processed 'Lean' data ready for AI analysis:")),
       Element("json", "assistant", LeanData(results)) >>

\* line 94: what is remembered of the processed file
ProcessedName(f) == Str(f.v.name)

\* history: the response is a 2xx carrying a JSON body
Is2xxJson(r) == r.kind = "response" /\ r.status >= 200 /\ r.status < 300 /\ r.body.json # NotJson

Outcome(r, ra) ==
    CASE ra.outcome = "unbound" -> "no_response"
      [] ra.outcome = "valueerror" -> "bad_json_uncaught"
      [] r.status >= 400 -> "http_error"
      [] r.body.json = NotJson -> "bad_json"
      [] ~Truthy(ra.results) -> "falsy_results"
      [] ShapeRaises(ra.results) -> "attribute_error"
      [] OTHER -> "completed"

\* the response (or the exception) arrives: rest of run_analysis, then lines 78-97
Respond(r, jsonErrorCaught) ==
    LET ra == run_analysis(r, jsonErrorCaught)
        name == ProcessedName(uploaded_file)
    IN
    /\ pc = "submitting"
    /\ pending = PyNone
    /\ in_flight' = in_flight - 1
    /\ UNCHANGED pending
    /\ last_submit' = [name |-> name, outcome |-> Outcome(r, ra)]
    /\ last_2xx_json' = IF Is2xxJson(r) THEN name ELSE last_2xx_json
    /\ last_response' = r
    /\ IF ra.outcome # "returned"
       THEN \* uncaught exception: Streamlit shows it and ends the run
            /\ screen' = screen \o ra.errors \o <<Element("exception", "assistant", Str(ra.outcome))>>
            /\ aborted' = TRUE
            /\ prompt' = PyNone
            /\ pc' = "idle"
            /\ UNCHANGED <<messages, last_processed_file, lpf_sets>>
       ELSE IF ~Truthy(ra.results)
       THEN \* line 78 is false
            /\ screen' = screen \o ra.errors
            /\ pc' = "chat"
            /\ UNCHANGED <<messages, last_processed_file, aborted, prompt, lpf_sets>>
       ELSE IF ShapeRaises(ra.results)
       THEN \* line 80: AttributeError, uncaught
            /\ screen' = Append(screen, Element("exception", "assistant", Str("AttributeError")))
            /\ aborted' = TRUE
            /\ prompt' = PyNone
            /\ pc' = "idle"
            /\ UNCHANGED <<messages, last_processed_file, lpf_sets>>
       ELSE \* lines 80-97
            /\ messages' = Extend(messages, SuccessMessages(ra.results))
            /\ screen' = screen \o SuccessScreen(ra.results)
            /\ last_processed_file' = name
            /\ lpf_sets' = lpf_sets + 1
            /\ pc' = "rerun"
            /\ UNCHANGED <<aborted, prompt>>
    /\ UNCHANGED <<MAKE_WEBHOOK_URL, initialized, uploaded_file, outbound, at_event>>

\* A browser event arrives while the script is blocked in requests.post.
\* The session has one script thread: the event is queued, nothing runs.
EventWhileSubmitting(f, p) ==
    /\ pc = "submitting"
    /\ pending = PyNone
    /\ HasRoom
    /\ \/ p = PyNone
       \/ f = uploaded_file
    /\ pending' = [file |-> f, prompt |-> p]
    /\ UNCHANGED <<MAKE_WEBHOOK_URL, initialized, messages, last_processed_file,
                   uploaded_file, prompt, pc, outbound, screen, aborted, last_submit,
                   last_2xx_json, last_response, at_event, in_flight, lpf_sets>>

\* requests.post returns with an event queued: the first st.* call after it
\* (st.error at line 40, or leaving the spinner of line 73) stops the run
\* before lines 78-107; the next run starts with the queued widget values.
RespondInterrupted(r) ==
    /\ pc = "submitting"
    /\ pending # PyNone
    /\ in_flight' = in_flight - 1
    /\ last_submit' = [name |-> ProcessedName(uploaded_file), outcome |-> "interrupted"]
    /\ last_2xx_json' = IF Is2xxJson(r) THEN ProcessedName(uploaded_file) ELSE last_2xx_json
    /\ last_response' = r
    /\ uploaded_file' = pending.file
    /\ prompt' = pending.prompt
    /\ pending' = PyNone
    /\ pc' = "init"
    /\ screen' = <<>>
    /\ aborted' = FALSE
    /\ at_event' = Snapshot
    /\ UNCHANGED <<MAKE_WEBHOOK_URL, initialized, messages, last_processed_file,
                   outbound, lpf_sets>>

(* --------------------- lines 100-107: submitPrompt -------------------- *)
\* variant: the reply is appended before the user's text
PromptMessages_ReplyFirst(p) == <<NotImplementedReply, UserMessage(p)>>

PromptMessages(p) == <<UserMessage(p), NotImplementedReply>>

\* variant: st.rerun() is called at the end of every run
AfterChat_AlwaysRerun(p) == "rerun"

\* lines 100 and 107: st.rerun() only when a prompt was handled; otherwise
\* the script ends and the session awaits the next event
AfterChat(p) == IF Truthy(p) THEN "rerun" ELSE "idle"

ChatInput ==
    /\ pc = "chat"
    /\ IF Truthy(prompt)
       THEN /\ messages' = Extend(messages, PromptMessages(prompt))
            /\ screen' = Append(screen, Element("write", "user", prompt))
       ELSE UNCHANGED <<messages, screen>>
    /\ pc' = AfterChat(prompt)
    /\ UNCHANGED <<pending, in_flight, lpf_sets>>
    /\ UNCHANGED <<MAKE_WEBHOOK_URL, initialized, last_processed_file, uploaded_file,
                   prompt, outbound, aborted, last_submit, last_2xx_json, last_response, at_event>>

Next ==
    \/ \E f \in Files \cup {PyNone} : SelectFile(f)
    \/ \E p \in Prompts : EnterPrompt(p)
    \/ Rerun
    \/ Initialize
    \/ SubmitSkip
    \/ SubmitUnconfigured
    \/ SubmitSend
    \/ \E r \in Responses, c \in BOOLEAN : Respond(r, c)
    \/ \E f \in Files \cup {PyNone}, p \in Prompts \cup {PyNone} : EventWhileSubmitting(f, p)
    \/ \E r \in Responses : RespondInterrupted(r)
    \/ ChatInput

Spec == Init /\ [][Next]_vars

\* The script's own steps are taken as long as they are possible, and every
\* request is eventually answered or fails (the assumption of the claim
\* about progress; the code sets no timeout).
ScriptStep == Rerun \/ Initialize \/ SubmitSkip \/ SubmitUnconfigured \/ SubmitSend \/ ChatInput
Answer == \/ \E r \in Responses, c \in BOOLEAN : Respond(r, c)
          \/ \E r \in Responses : RespondInterrupted(r)
LiveSpec == Spec /\ WF_vars(ScriptStep) /\ WF_vars(Answer)

(* ============================ properties ============================== *)
ErrorCount(scr) == Cardinality({i \in DOMAIN scr : scr[i].kind = "error"})
SelectedName == Str(uploaded_file.v.name)
\* the step in which a pending request ends (response handled or exception)
RequestEnds == pc = "submitting" /\ pc' # "submitting"
\* the step in which submitFile decides what to do with the selected file
FileStep == pc = "upload" /\ pc' # "upload" /\ uploaded_file # PyNone
UrlAbsent == MAKE_WEBHOOK_URL = PyNone \/ MAKE_WEBHOOK_URL = Str("")

\* C1: duplicate suppression.  Once a submitFile of a file named n has gone
\* through its success branch (last_submit is <n, completed>, and no
\* submitFile of another name got past the guard since), every later
\* submitFile of a file named n issues no request and appends no message:
\* it goes straight on to the chat input.
C1_DuplicateSuppressed ==
    [][ (FileStep /\ last_submit.outcome = "completed" /\ last_submit.name = SelectedName)
        => (outbound' = outbound /\ messages' = messages /\ screen' = screen /\ pc' = "chat") ]_vars

\* C1 witness: the user re-selected a file of the processed name (same name,
\* possibly other bytes); the run skipped it, one call in all.
C1_Witness ==
    /\ pc = "chat"
    /\ uploaded_file # PyNone
    /\ last_submit.outcome = "completed" /\ last_submit.name = SelectedName
    /\ at_event.lpf = SelectedName
    /\ Len(outbound) = 1
    /\ outbound[1].file[2] # uploaded_file.v.bytes

\* C2 (as claimed): last_processed_file is unset while no submission was
\* answered 2xx with a JSON body, and otherwise is the name of the file of
\* the latest submission so answered.
C2_LastProcessedIsLatestSuccess == last_processed_file = last_2xx_json

\* C3 (as claimed): on the response {data: {python_summary: s, lean: L}} the
\* log grows by exactly the summary message and a structured message L.
C3_SummaryAndLeanLogged ==
    [][ (RequestEnds /\ last_response' = Response(200, FullBody))
        => messages' = messages \o << SummaryMessage(Str("3 horses analyzed")),
                                      [role |-> "assistant", content |-> Lean] >> ]_vars

\* C4: a transport failure or a non-2xx status appends no message and leaves
\* last_processed_file unchanged, and the next submitFile of a file of that
\* name issues a new request carrying that file.
C4_FailureAllowsRetry ==
    [][ /\ (RequestEnds /\ (last_response'.kind = "raised" \/ last_response'.status >= 400))
           => (messages' = messages /\ last_processed_file' = last_processed_file)
        /\ (FileStep /\ ~UrlAbsent /\ last_submit.name = SelectedName
                     /\ last_submit.outcome \in {"no_response", "http_error"})
           => (pc' = "submitting" /\ Len(outbound') = Len(outbound) + 1
               /\ outbound'[Len(outbound')].file[1] = uploaded_file.v.name) ]_vars

\* C4 witness: a request for a name is pending right after a request for the
\* same name failed.
C4_Witness ==
    /\ pc = "submitting"
    /\ last_submit.name = SelectedName
    /\ last_submit.outcome \in {"no_response", "http_error"}
    /\ Len(outbound) = 2
    /\ outbound[1].file[1] = outbound[2].file[1]
    /\ messages = <<Greeting>>
    /\ last_processed_file = PyNone

\* C5: with MAKE_WEBHOOK_URL absent (None or empty), every submitFile issues
\* no request, surfaces exactly one error, and leaves the log and
\* last_processed_file unchanged.
C5_UnconfiguredNoCall ==
    [][ (FileStep /\ UrlAbsent)
        => /\ outbound' = outbound /\ outbound = <<>>
           /\ ErrorCount(screen) = 0 /\ ErrorCount(screen') = 1
           /\ messages' = messages
           /\ last_processed_file' = last_processed_file /\ last_processed_file = PyNone
           /\ pc' = "chat" ]_vars

\* C5 witness: a file was submitted with an empty URL and one error is shown.
C5_Witness ==
    /\ MAKE_WEBHOOK_URL = Str("")
    /\ pc = "chat"
    /\ uploaded_file # PyNone
    /\ last_submit = [name |-> SelectedName, outcome |-> "unconfigured"]
    /\ ErrorCount(screen) = 1
    /\ outbound = <<>>

\* C6 (as claimed): every error of submitFile (no configuration, error
\* response, exception before any response, malformed response) shows an
\* error message, keeps the state, and lets the run go on; no run aborts.
C6_ErrorsRecovered ==
    [][ /\ ~aborted'
        /\ ( \/ (FileStep /\ UrlAbsent)
             \/ (RequestEnds /\ ( \/ last_response'.kind = "raised"
                                  \/ last_response'.status >= 400
                                  \/ last_response'.body.json = NotJson )) )
           => /\ ErrorCount(screen') > ErrorCount(screen)
              /\ messages' = messages
              /\ last_processed_file' = last_processed_file
              /\ pc' = "chat" ]_vars

\* the JSON value has no data.python_summary
LacksSummary(j) ==
    \/ j.t # "dict"
    \/ "data" \notin DOMAIN j.v
    \/ j.v["data"].t # "dict"
    \/ "python_summary" \notin DOMAIN j.v["data"].v

\* C7 (as claimed): every 2xx response whose JSON body lacks
\* data.python_summary still succeeds: the placeholder summary is appended
\* and last_processed_file becomes the file's name.
C7_PlaceholderSummary ==
    [][ (RequestEnds /\ Is2xxJson(last_response') /\ LacksSummary(last_response'.body.json))
        => /\ messages' = Append(messages, SummaryMessage(NoSummary))
           /\ last_processed_file' = SelectedName ]_vars

\* C8 (as claimed): a 2xx response whose body is not JSON degrades to the
\* placeholders: the placeholder summary is appended and the submission is
\* not handled as a failure.
C8_NonJsonDegrades ==
    [][ (RequestEnds /\ last_response'.kind = "response" /\ last_response'.status < 300
                     /\ last_response'.body.json = NotJson)
        => /\ messages' = Append(messages, SummaryMessage(NoSummary))
           /\ ErrorCount(screen') = 0
           /\ ~aborted' ]_vars

\* C9 (as claimed): the run that receives a prompt ends having appended
\* exactly the user's message and the fixed reply, whatever file is selected.
C9_PromptAppendsTwo ==
    (Truthy(prompt) /\ pc = "rerun") => messages = at_event.messages \o PromptMessages(prompt)

\* C10 (as claimed): handling a prompt issues no request and leaves
\* last_processed_file unchanged.
C10_PromptIsOrthogonal ==
    Truthy(prompt) => (Len(outbound) = at_event.calls /\ last_processed_file = at_event.lpf)

\* C11: with the endpoint configured, every submitFile of a file whose name
\* differs from last_processed_file issues exactly one POST, whose 'file'
\* part is that file's name, bytes and MIME type; nothing more is sent until
\* that request has ended.
C11_OnePostPerSubmission ==
    [][ /\ (FileStep /\ ~UrlAbsent /\ last_processed_file # SelectedName)
           => /\ outbound' = Append(outbound, [file |-> <<uploaded_file.v.name,
                                                          uploaded_file.v.bytes,
                                                          uploaded_file.v.type>>])
              /\ pc' = "submitting"
        /\ (pc = "submitting") => outbound' = outbound ]_vars

\* C11 witness: race1.drf then race2.drf were submitted: two calls, the first
\* carrying race1.drf and the second race2.drf with its own bytes and type.
C11_Witness ==
    /\ pc = "idle"
    /\ Len(outbound) = 2
    /\ outbound[1] = [file |-> <<"race1.drf", "bytes-B", "application/octet-stream">>]
    /\ outbound[2] = [file |-> <<"race2.drf", "bytes-A", "text/plain">>]
    /\ uploaded_file = File("race2.drf", "bytes-A", "text/plain")

\* C12 (as claimed): a script run started by st.rerun(), with the same file
\* still selected, only re-renders: it issues no request and changes
\* neither the log nor last_processed_file.
C12_RerunOnlyRenders ==
    [][ (at_event.rerun /\ pc # "idle")
        => /\ outbound' = outbound
           /\ messages' = messages
           /\ last_processed_file' = last_processed_file ]_vars

IsPrefix(a, b) == Len(a) <= Len(b) /\ \A i \in 1..Len(a) : a[i] = b[i]

\* C13: the log is append-only: in every step the log before is a prefix of
\* the log after, and once the session state exists the first message is
\* the greeting.
C13_AppendOnly ==
    [][ /\ IsPrefix(messages, messages')
        /\ initialized' => (Len(messages') >= 1 /\ messages'[1] = Greeting) ]_vars

\* C13 witness: after a successful submission and a prompt the log is the
\* greeting followed by the three appended messages.
C13_Witness ==
    /\ pc = "idle"
    /\ Len(messages) = 4
    /\ messages[1] = Greeting
    /\ messages[2] = SummaryMessage(Str("3 horses analyzed"))
    /\ messages[3].role = "user"
    /\ messages[4] = NotImplementedReply

\* C14: initialize is idempotent: without state it creates the log with the
\* greeting alone and no last_processed_file; with state it changes neither.
C14_InitializeIdempotent ==
    [][ (pc = "init")
        => IF initialized
           THEN messages' = messages /\ last_processed_file' = last_processed_file
           ELSE messages' = <<Greeting>> /\ last_processed_file' = PyNone ]_vars

\* C14 witness: a later run has passed its initialization with a log of
\* several messages and a processed file, both kept.
C14_Witness ==
    /\ pc = "upload"
    /\ at_event.rerun
    /\ Len(messages) >= 2
    /\ at_event.messages # <<>>
    /\ last_processed_file # PyNone

\* C15: no stuck state: from every position of the script, in particular
\* from a submission waiting for its answer, control comes back to the
\* state awaiting the next event, given that the script keeps running and
\* every request is answered or fails.
C15_ReturnsToIdle == (pc # "idle") ~> (pc = "idle")

\* C15 witness: after a submission that ended (in success, failure or
\* abort) the session awaits the next event, and events are accepted.
C15_Witness ==
    /\ pc = "idle"
    /\ Len(outbound) >= 1
    /\ last_submit.outcome \in {"completed", "http_error", "no_response"}
    /\ in_flight = 0
    /\ HasRoom

SummaryMessages == { SummaryMessage(Str("3 horses analyzed")), SummaryMessage(NoSummary) }
SummaryCount(log) == Cardinality({i \in DOMAIN log : log[i] \in SummaryMessages})
RunEnded == pc = "idle" \/ pc = "rerun"

\* C17: at the end of every script run, last_processed_file is set exactly
\* when the log holds an "Analysis Complete!" message, and there are as many
\* such messages as submissions that assigned last_processed_file.
C17_SummaryWithLastProcessed ==
    RunEnded => /\ (last_processed_file # PyNone) <=> (SummaryCount(messages) >= 1)
                /\ SummaryCount(messages) = lpf_sets

\* C17 witness: two submissions succeeded, two summary messages.
C17_Witness ==
    /\ pc = "idle"
    /\ lpf_sets = 2
    /\ SummaryCount(messages) = 2
    /\ last_processed_file = Str("race2.drf")

\* C18: at the end of every script run, every user message is directly
\* followed by the fixed reply.
C18_UserThenReply ==
    RunEnded => \A i \in DOMAIN messages :
                    messages[i].role = "user"
                    => (i < Len(messages) /\ messages[i + 1] = NotImplementedReply)

\* C18 witness: a prompt was handled and a summary was appended after it;
\* the pair is still adjacent.
C18_Witness ==
    /\ pc = "idle"
    /\ Len(messages) = 4
    /\ messages[2].role = "user"
    /\ messages[3] = NotImplementedReply
    /\ messages[4] \in SummaryMessages

TypeOK ==
    /\ pc \in {"idle", "init", "upload", "submitting", "chat", "rerun"}
    /\ Len(messages) <= MaxMessages
    /\ Len(outbound) <= MaxCalls
    /\ initialized \in BOOLEAN
    /\ aborted \in BOOLEAN
    /\ in_flight \in 0..1
    /\ lpf_sets \in 0..MaxMessages
====
